---- MODULE Spec2Model ----
(***************************************************************************)
(* Job lifecycle of the nutrition-label analyser: the file-backed job      *)
(* store (src/src/lib/store.ts), the submission endpoint with its detached *)
(* analysis task (src/unnamed/part_004) and the status endpoint            *)
(* (src/src/app/api/analyze/status/route.ts).                              *)
(*                                                                         *)
(* Two specifications share the variables:                                 *)
(*   Spec       the running program: submissions, detached tasks, status   *)
(*              requests, the sweep timer and the wall clock;              *)
(*   StoreSpec  the exported store object driven call by call, each call   *)
(*              recorded in ret with the entry it found and its result.    *)
(* FairSpec is Spec with the detached tasks' external calls settling.      *)
(***************************************************************************)
EXTENDS Integers, Sequences, FiniteSets, TLC

VARIABLES
    files,       \* /tmp/analysis-jobs: job id -> document stored in <id>.json
    now,         \* Date.now(), in milliseconds
    used,        \* ids crypto.randomUUID() has handed out
    pc,          \* per submission: where its handler / detached task stands
    form,        \* per submission: what the request's form data carried
    jobId,       \* per submission: the id generated for it
    resp,        \* per submission: the HTTP response of POST /api/analyze
    external,    \* per submission: how the inference call settled
    ret,         \* the last direct call on the store object and what it returned
    view,        \* the page component: mounted or unmounted
    poller,      \* per submission: the page's setInterval timer for it
    inflight,    \* per submission: the status check not yet handled by the page
    env,         \* process.env.OPENAI_API_KEY
    call         \* the updateJob call on the stack, between its read and its write

clientVars == <<view, poller, inflight>>

vars == <<files, now, used, pc, form, jobId, resp, external, ret, clientVars, env, call>>

---------------------------------------------------------------------------
(* Bounds of the model *)

NumIds == 2         \* ids randomUUID can draw from
NumRequests == 2    \* submissions
MaxWindows == 1     \* whole retention windows the clock may jump

(* Program constants *)

RETENTION_WINDOW == 3600000

JobIds == 1..NumIds
Requests == 1..NumRequests

---------------------------------------------------------------------------
(* Values *)

Undefined == [undefined |-> TRUE]
Garbage == [garbage |-> TRUE]
NoResponse == [status |-> 0]
NoId == 0

Terminal == {"completed", "failed"}

Rank(status) ==
    CASE status = "pending" -> 0
      [] status = "processing" -> 1
      [] OTHER -> 2

---------------------------------------------------------------------------
(* The file system calls the store makes *)

existsSync(fs, id) == id \in DOMAIN fs

writeFileSync(fs, id, doc) ==
    [n \in DOMAIN fs \cup {id} |-> IF n = id THEN doc ELSE fs[n]]

unlinkSync(fs, id) == [n \in DOMAIN fs \ {id} |-> fs[n]]

\* JSON.parse of a file's text succeeds unless the text is not a JSON document;
\* JSON.stringify drops absent (undefined) fields, which a document here
\* shows by not having the field.
JSONparses(doc) == "garbage" \notin DOMAIN doc

---------------------------------------------------------------------------
(* JobStore *)

\* createJob leaving a record that is already stored as it is.
createJob_KeepsExisting(fs, id, clock) ==
    IF existsSync(fs, id) THEN fs
    ELSE writeFileSync(fs, id, [status |-> "pending", timestamp |-> clock])

createJob(fs, id, clock) ==
    writeFileSync(fs, id, [status |-> "pending", timestamp |-> clock])

getJob_InclusiveBoundary(fs, id, clock) ==
    IF ~existsSync(fs, id) THEN [value |-> Undefined, fs |-> fs]
    ELSE IF ~JSONparses(fs[id]) THEN [value |-> Undefined, fs |-> fs]
    ELSE IF clock - fs[id].timestamp >= RETENTION_WINDOW
         THEN [value |-> Undefined, fs |-> unlinkSync(fs, id)]
         ELSE [value |-> fs[id], fs |-> fs]

\* getJob deleting, with an expired record, every other expired record.
getJob_ExpiresAll(fs, id, clock) ==
    IF ~existsSync(fs, id) THEN [value |-> Undefined, fs |-> fs]
    ELSE IF ~JSONparses(fs[id]) THEN [value |-> Undefined, fs |-> fs]
    ELSE IF clock - fs[id].timestamp > RETENTION_WINDOW
         THEN [value |-> Undefined,
               fs |-> [n \in {m \in DOMAIN fs :
                                 ~JSONparses(fs[m])
                                    \/ ~(clock - fs[m].timestamp > RETENTION_WINDOW)}
                          |-> fs[n]]]
         ELSE [value |-> fs[id], fs |-> fs]

getJob_Touch(fs, id, clock) ==
    IF ~existsSync(fs, id) THEN [value |-> Undefined, fs |-> fs]
    ELSE IF ~JSONparses(fs[id]) THEN [value |-> Undefined, fs |-> fs]
    ELSE IF clock - fs[id].timestamp > RETENTION_WINDOW
         THEN [value |-> Undefined, fs |-> unlinkSync(fs, id)]
         ELSE [value |-> fs[id],
               fs |-> writeFileSync(fs, id, [fs[id] EXCEPT !.timestamp = clock])]

\* getJob without its catch block: the error of JSON.parse leaves the call.
getJob_Rethrows(fs, id, clock) ==
    IF ~existsSync(fs, id) THEN [value |-> Undefined, fs |-> fs]
    ELSE IF ~JSONparses(fs[id]) THEN [value |-> [threw |-> TRUE], fs |-> fs]
    ELSE IF clock - fs[id].timestamp > RETENTION_WINDOW
         THEN [value |-> Undefined, fs |-> unlinkSync(fs, id)]
         ELSE [value |-> fs[id], fs |-> fs]

\* The value returned and the directory left behind.
getJob(fs, id, clock) ==
    IF ~existsSync(fs, id) THEN [value |-> Undefined, fs |-> fs]
    ELSE IF ~JSONparses(fs[id]) THEN [value |-> Undefined, fs |-> fs]
    ELSE IF clock - fs[id].timestamp > RETENTION_WINDOW
         THEN [value |-> Undefined, fs |-> unlinkSync(fs, id)]
         ELSE [value |-> fs[id], fs |-> fs]

Merge_KeepExisting(existingJob, update, clock) ==
    [f \in DOMAIN existingJob \cup {"timestamp"} |->
        IF f = "timestamp" THEN clock ELSE existingJob[f]]

\* { ...existingJob, ...update }: the timestamp of the update is kept.
Merge_CallerTimestamp(existingJob, update, clock) ==
    [f \in DOMAIN existingJob \cup DOMAIN update \cup {"timestamp"} |->
        IF f \in DOMAIN update THEN update[f]
        ELSE IF f = "timestamp" THEN clock
        ELSE existingJob[f]]

\* { ...existingJob, ...update, timestamp: Date.now() }
Merge(existingJob, update, clock) ==
    [f \in DOMAIN existingJob \cup DOMAIN update \cup {"timestamp"} |->
        IF f = "timestamp" THEN clock
        ELSE IF f \in DOMAIN update THEN update[f]
        ELSE existingJob[f]]

updateJob_NoExpiryCheck(fs, id, update, clock) ==
    IF existsSync(fs, id) /\ JSONparses(fs[id])
    THEN writeFileSync(fs, id, Merge(fs[id], update, clock))
    ELSE fs

updateJob_Upsert(fs, id, update, clock) ==
    LET found == getJob(fs, id, clock)
    IN  IF found.value # Undefined
        THEN writeFileSync(found.fs, id, Merge(found.value, update, clock))
        ELSE writeFileSync(found.fs, id, Merge([status |-> "pending"], update, clock))

updateJob(fs, id, update, clock) ==
    LET found == getJob(fs, id, clock)
    IN  IF found.value # Undefined
        THEN writeFileSync(found.fs, id, Merge(found.value, update, clock))
        ELSE found.fs

\* cleanup without the deletion in its catch block.
cleanup_KeepsUnreadable(fs, clock) ==
    LET oneHourAgo == clock - RETENTION_WINDOW
        kept == {n \in DOMAIN fs :
                    ~JSONparses(fs[n]) \/ ~(fs[n].timestamp < oneHourAgo)}
    IN  [n \in kept |-> fs[n]]

\* cleanup with an inclusive comparison.
cleanup_InclusiveBoundary(fs, clock) ==
    LET oneHourAgo == clock - RETENTION_WINDOW
        kept == {n \in DOMAIN fs :
                    JSONparses(fs[n]) /\ ~(fs[n].timestamp <= oneHourAgo)}
    IN  [n \in kept |-> fs[n]]

\* cleanup stopping after its first deletion.
cleanup_OnePerRun(fs, clock) ==
    LET oneHourAgo == clock - RETENTION_WINDOW
        stale == {n \in DOMAIN fs :
                     ~JSONparses(fs[n]) \/ fs[n].timestamp < oneHourAgo}
        first == {n \in stale : \A m \in stale : n <= m}
    IN  [n \in DOMAIN fs \ first |-> fs[n]]

cleanup(fs, clock) ==
    LET oneHourAgo == clock - RETENTION_WINDOW
        kept == {n \in DOMAIN fs :
                    JSONparses(fs[n]) /\ ~(fs[n].timestamp < oneHourAgo)}
    IN  [n \in kept |-> fs[n]]

---------------------------------------------------------------------------
(* The analysis pipeline: analyzeImage and its helpers *)

\* A response text is a sequence of tokens; a JSON document is one token.
Tok(t) == [t |-> t]
JsonTok(doc) == [t |-> "json", v |-> doc]

Sugar == [name |-> "sugar", classification |-> "moderate_risk",
          explanation |-> "Raises blood glucose."]
PalmOil == [name |-> "palm oil", classification |-> "high_risk",
            explanation |-> "High in saturated fat."]
\* A JSON array, and a JSON value that is none.
JArray(items) == [array |-> items]
JString(text) == [string |-> text]
IsArray(value) == "array" \in DOMAIN value

GoodDoc == [ingredients |-> JArray(<<Sugar, PalmOil>>)]

PlainText == <<JsonTok(GoodDoc)>>
FencedText == <<Tok("FENCE_JSON"), Tok("NL"), JsonTok(GoodDoc), Tok("NL"), Tok("FENCE")>>
ProseText == <<Tok("prose")>>

\* Documents the prompt did not ask for.
Unhealthy == [name |-> "sugar", classification |-> "unhealthy",
              explanation |-> "Raises blood glucose."]
Nameless == [classification |-> "healthy", explanation |-> "Hydrates."]
EmptyName == [name |-> "", classification |-> "healthy",
              explanation |-> "Hydrates."]
Unexplained == [name |-> "sugar", classification |-> "moderate_risk"]
\* a name holding a lone surrogate, written "\ud800" in the JSON text
LoneSurrogate == [name |-> "U+D800", classification |-> "healthy",
                  explanation |-> "Hydrates."]

OddDocs ==
    {[ingredients |-> JArray(<<Unhealthy, PalmOil>>)],
     [ingredients |-> JArray(<<Sugar, Nameless>>)],
     [ingredients |-> JArray(<<EmptyName>>)],
     [ingredients |-> JArray(<<Unexplained, PalmOil>>)],
     [ingredients |-> JArray(<<Sugar, LoneSurrogate, PalmOil>>)],
     [ingredients |-> JString("sugar, palm oil")],
     [items |-> JArray(<<Sugar>>)]}

\* Other ways of fencing the document, and a fence after a newline.
FencedTexts ==
    {FencedText,
     <<Tok("FENCE_JSON"), JsonTok(GoodDoc), Tok("FENCE")>>,
     <<Tok("FENCE"), Tok("NL"), JsonTok(GoodDoc), Tok("NL"), Tok("FENCE")>>,
     <<Tok("FENCE_JSON"), Tok("NL"), JsonTok(GoodDoc), Tok("NL"), Tok("FENCE"),
       Tok("NL")>>}
NewlineFencedText ==
    <<Tok("NL"), Tok("FENCE_JSON"), Tok("NL"), JsonTok(GoodDoc), Tok("NL"),
      Tok("FENCE")>>

\* The document with other text around it, and two documents in one text.
EmbeddedText == <<Tok("prose"), Tok("NL"), JsonTok(GoodDoc), Tok("NL"), Tok("prose")>>
TwoObjectsText == <<JsonTok(GoodDoc), Tok("prose"), JsonTok(GoodDoc)>>

\* How the awaited openai.chat.completions.create call can settle.
ErrorValue(message) == [isError |-> TRUE, message |-> message]
NonErrorValue == [isError |-> FALSE]

ExternalResponses ==
    {[kind |-> "rejected", error |-> ErrorValue("Request timed out.")],
     [kind |-> "rejected", error |-> NonErrorValue],
     [kind |-> "resolved", choices |-> <<>>],
     [kind |-> "resolved", choices |-> <<[content |-> <<>>]>>],
     [kind |-> "resolved", choices |-> <<[content |-> PlainText]>>],
     [kind |-> "resolved", choices |-> <<[content |-> FencedText]>>],
     [kind |-> "resolved", choices |-> <<[content |-> ProseText]>>]}

\* The same with the further texts the service can answer with.
PipelineResponses ==
    ExternalResponses
    \cup {[kind |-> "resolved", choices |-> <<[content |-> <<JsonTok(doc)>>]>>] :
             doc \in OddDocs}
    \cup {[kind |-> "resolved", choices |-> <<[content |-> text]>>] :
             text \in FencedTexts
                      \cup {NewlineFencedText, EmbeddedText, TwoObjectsText}}

Pending == [kind |-> "pending"]

Throw(error) == [threw |-> TRUE, error |-> error]
Return(value) == [threw |-> FALSE, value |-> value]

\* text.replace(/FENCE_JSON NL?|NL? FENCE/g, ''), scanning left to right:
\* FENCE_JSON is the text of three backquotes and json, FENCE three backquotes,
\* NL a newline.  The text NL FENCE_JSON loses NL and the backquotes and keeps json.
RECURSIVE StripFences(_)
StripFences(text) ==
    IF text = <<>> THEN <<>>
    ELSE LET head == text[1]
             rest == Tail(text)
         IN  IF head.t = "FENCE_JSON"
             THEN IF rest # <<>> /\ rest[1].t = "NL"
                  THEN StripFences(Tail(rest))
                  ELSE StripFences(rest)
             ELSE IF head.t = "NL" /\ rest # <<>> /\ rest[1].t = "FENCE"
             THEN StripFences(Tail(rest))
             ELSE IF head.t = "NL" /\ rest # <<>> /\ rest[1].t = "FENCE_JSON"
             THEN <<Tok("json-word")>> \o StripFences(Tail(rest))
             ELSE IF head.t = "FENCE"
             THEN StripFences(rest)
             ELSE <<head>> \o StripFences(rest)

RECURSIVE TrimStart(_)
TrimStart(text) ==
    IF text # <<>> /\ text[1].t = "NL" THEN TrimStart(Tail(text)) ELSE text

RECURSIVE TrimEnd(_)
TrimEnd(text) ==
    IF text # <<>> /\ text[Len(text)].t = "NL"
    THEN TrimEnd(SubSeq(text, 1, Len(text) - 1))
    ELSE text

trim(text) == TrimEnd(TrimStart(text))

\* cleanJsonResponse without the replace.
cleanJsonResponse_TrimOnly(text) == trim(text)

cleanJsonResponse(text) == trim(StripFences(text))

\* JSON.parse(text): the text must be exactly one JSON document.
JSONparse(text) ==
    IF Len(text) = 1 /\ text[1].t = "json" THEN Return(text[1].v)
    ELSE Throw(ErrorValue("Unexpected token"))

\* extractJsonFromText of the earlier route: the direct parse of the cleaned
\* text and, when it fails, the parse of the match of /\{[\s\S]*\}/, which
\* runs from the first opening brace to the last closing one.
Null == [null |-> TRUE]

extractJsonFromText(text) ==
    LET cleanText == trim(StripFences(text))
        braces == {i \in DOMAIN cleanText : cleanText[i].t = "json"}
    IN  IF ~JSONparse(cleanText).threw THEN JSONparse(cleanText).value
        ELSE IF braces = {} THEN Null
        ELSE LET first == CHOOSE i \in braces : \A j \in braces : i <= j
                 last == CHOOSE i \in braces : \A j \in braces : j <= i
                 jsonMatch == SubSeq(cleanText, first, last)
             IN  IF JSONparse(jsonMatch).threw THEN Null
                 ELSE JSONparse(jsonMatch).value

\* Percent-encoding, on the names the model uses; a lone surrogate makes it
\* throw URIError.
encodeURIComponent(s) ==
    CASE s = "palm oil" -> Return("palm%20oil")
      [] s = "U+D800" -> Throw(ErrorValue("URI malformed"))
      [] OTHER -> Return(s)

searchPubMedPapers(ingredient) ==
    LET searchTerm == encodeURIComponent(ingredient)
    IN  IF searchTerm.threw THEN searchTerm
        ELSE Return(<<[title |-> "Research about " \o ingredient,
                       url |-> "https://pubmed.ncbi.nlm.nih.gov/?term="
                                  \o searchTerm.value]>>)

\* ingredient.name as searchPubMedPapers uses it: a missing name is undefined,
\* which both the encoding and the template literal turn into its text.
NameOf(ingredient) ==
    IF "name" \in DOMAIN ingredient THEN ingredient.name ELSE "undefined"

WithPapers(ingredient) ==
    LET papers == searchPubMedPapers(NameOf(ingredient))
    IN  IF papers.threw THEN papers
        ELSE Return([f \in DOMAIN ingredient \cup {"papers"} |->
                        IF f = "papers" THEN papers.value ELSE ingredient[f]])

\* What the body of analyzeImage does once the inference call has settled.
analyzeImage(settled) ==
    IF settled.kind = "rejected" THEN Throw(settled.error)
    ELSE IF settled.choices = <<>> \/ settled.choices[1].content = <<>>
    THEN Throw(ErrorValue("No content in response"))
    ELSE LET cleanedContent == cleanJsonResponse(settled.choices[1].content)
             parsedResponse == JSONparse(cleanedContent)
         IN  \* .map of a missing or non-array ingredients is a TypeError
             IF \/ parsedResponse.threw
                \/ "ingredients" \notin DOMAIN parsedResponse.value
                \/ ~IsArray(parsedResponse.value.ingredients)
             THEN Throw(ErrorValue("Failed to parse analysis results"))
             ELSE LET items == parsedResponse.value.ingredients.array
                      ingredientsWithPapers ==
                          [i \in DOMAIN items |-> WithPapers(items[i])]
                  IN  \* Promise.all rejects when one callback does
                      IF \E i \in DOMAIN items : ingredientsWithPapers[i].threw
                      THEN Throw(ErrorValue("Failed to parse analysis results"))
                      ELSE Return([ingredients |->
                              [i \in DOMAIN items |->
                                  ingredientsWithPapers[i].value]])

---------------------------------------------------------------------------
(* POST /api/analyze and its detached task *)

FormKinds == {"file", "text", "none", "malformed"}

randomUUID_Collides(usedIds) == JobIds

\* crypto.randomUUID(): an id no earlier call returned.  Ids are opaque and
\* only compared for equality, so the model names them in the order drawn.
randomUUID(usedIds) ==
    {id \in JobIds \ usedIds : \A other \in JobIds \ usedIds : id <= other}

BadRequest == [status |-> 400, error |-> "No image provided"]
StartFailed == [status |-> 500, error |-> "Failed to start analysis"]
Started(id) == [status |-> 200, jobId |-> id]

TerminalUpdate_KeepsResult(outcome, clock) ==
    IF ~outcome.threw
    THEN [status |-> "completed", result |-> outcome.value, timestamp |-> clock]
    ELSE [status |-> "failed", result |-> [ingredients |-> <<>>],
          error |-> IF outcome.error.isError THEN outcome.error.message
                    ELSE "Unknown error",
          timestamp |-> clock]

\* The update the detached task posts from its try block or its catch block.
TerminalUpdate(outcome, clock) ==
    IF ~outcome.threw
    THEN [status |-> "completed", result |-> outcome.value, timestamp |-> clock]
    ELSE [status |-> "failed",
          error |-> IF outcome.error.isError THEN outcome.error.message
                    ELSE "Unknown error",
          timestamp |-> clock]

DetachedTask_NoCatch(fs, id, settled, clock) ==
    IF analyzeImage(settled).threw
    THEN [fs |-> fs, escaped |-> TRUE]
    ELSE [fs |-> updateJob(fs, id, TerminalUpdate(analyzeImage(settled), clock), clock),
          escaped |-> FALSE]

\* The detached task from the point where the inference call settles:
\* the directory it leaves and whether an exception left the task.
DetachedTask(fs, id, settled, clock) ==
    [fs |-> updateJob(fs, id, TerminalUpdate(analyzeImage(settled), clock), clock),
     escaped |-> FALSE]

PostReceive_CreatesFirst(r) ==
    /\ pc[r] = "new"
    /\ \A earlier \in Requests : earlier < r => pc[earlier] # "new"
    /\ \E kind \in FormKinds, id \in randomUUID(used) :
        /\ form' = [form EXCEPT ![r] = kind]
        /\ used' = used \cup {id}
        /\ jobId' = [jobId EXCEPT ![r] = id]
        /\ files' = createJob(files, id, now)
        /\ IF kind = "file"
           THEN /\ pc' = [pc EXCEPT ![r] = "buffering"]
                /\ resp' = resp
           ELSE /\ pc' = [pc EXCEPT ![r] = "responded"]
                /\ resp' = [resp EXCEPT ![r] =
                              IF kind = "none" THEN BadRequest ELSE StartFailed]
    /\ UNCHANGED <<now, external, ret, clientVars, env, call>>

\* Submissions are numbered in the order they arrive.
\* The handler up to its first suspension after the form data arrived:
\* the image check, randomUUID, createJob, and image.arrayBuffer() being called.
PostReceive(r) ==
    /\ pc[r] = "new"
    /\ \A earlier \in Requests : earlier < r => pc[earlier] # "new"
    /\ \E kind \in FormKinds :
        /\ form' = [form EXCEPT ![r] = kind]
        /\ CASE kind = "malformed" ->
                  \* req.formData() rejects: caught, 500
                  /\ pc' = [pc EXCEPT ![r] = "responded"]
                  /\ resp' = [resp EXCEPT ![r] = StartFailed]
                  /\ UNCHANGED <<files, used, jobId>>
             [] kind = "none" ->
                  /\ pc' = [pc EXCEPT ![r] = "responded"]
                  /\ resp' = [resp EXCEPT ![r] = BadRequest]
                  /\ UNCHANGED <<files, used, jobId>>
             [] kind = "text" ->
                  \* the image field is a string: image.arrayBuffer is not a
                  \* function, the TypeError is caught after createJob ran
                  \E id \in randomUUID(used) :
                      /\ used' = used \cup {id}
                      /\ jobId' = [jobId EXCEPT ![r] = id]
                      /\ files' = createJob(files, id, now)
                      /\ pc' = [pc EXCEPT ![r] = "responded"]
                      /\ resp' = [resp EXCEPT ![r] = StartFailed]
             [] kind = "file" ->
                  \E id \in randomUUID(used) :
                      /\ used' = used \cup {id}
                      /\ jobId' = [jobId EXCEPT ![r] = id]
                      /\ files' = createJob(files, id, now)
                      /\ pc' = [pc EXCEPT ![r] = "buffering"]
                      /\ resp' = resp
    /\ UNCHANGED <<now, external, ret, clientVars, env, call>>

\* createJob swallowing the error of writeFileSync.
PostReceiveUnwritable_Swallowed(r) ==
    /\ pc[r] = "new"
    /\ \A earlier \in Requests : earlier < r => pc[earlier] # "new"
    /\ \E id \in randomUUID(used) :
        /\ used' = used \cup {id}
        /\ jobId' = [jobId EXCEPT ![r] = id]
    /\ form' = [form EXCEPT ![r] = "file"]
    /\ pc' = [pc EXCEPT ![r] = "buffering"]
    /\ UNCHANGED <<files, now, resp, external, ret, clientVars, env, call>>

\* The handler on a request with a file while the job directory cannot be
\* written: writeFileSync throws inside createJob, which has no handler;
\* the catch block of POST answers 500.  The failed write leaves no file or
\* a file without a whole document.
PostReceiveUnwritable(r) ==
    /\ pc[r] = "new"
    /\ \A earlier \in Requests : earlier < r => pc[earlier] # "new"
    /\ \E id \in randomUUID(used) :
        /\ used' = used \cup {id}
        /\ jobId' = [jobId EXCEPT ![r] = id]
        /\ \/ files' = files
           \/ files' = writeFileSync(files, id, Garbage)
    /\ form' = [form EXCEPT ![r] = "file"]
    /\ pc' = [pc EXCEPT ![r] = "responded"]
    /\ resp' = [resp EXCEPT ![r] = StartFailed]
    /\ UNCHANGED <<now, external, ret, clientVars, env, call>>

PostResume_Awaits(r) ==
    /\ pc[r] = "buffering"
    /\ \E settled \in ExternalResponses :
        LET processing == updateJob(files, jobId[r], [status |-> "processing"], now)
            run == DetachedTask(processing, jobId[r], settled, now)
        IN  /\ files' = run.fs
            /\ external' = [external EXCEPT ![r] = settled]
            /\ pc' = [pc EXCEPT ![r] = "done"]
    /\ resp' = [resp EXCEPT ![r] = Started(jobId[r])]
    /\ UNCHANGED <<now, used, form, jobId, ret, clientVars, env, call>>

\* The handler from the resolved image.arrayBuffer() on: the update to
\* processing, the detached task started and left suspended on the inference
\* call, and the response.
PostResume(r) ==
    /\ pc[r] = "buffering"
    /\ files' = updateJob(files, jobId[r], [status |-> "processing"], now)
    /\ pc' = [pc EXCEPT ![r] = "awaiting"]
    /\ resp' = [resp EXCEPT ![r] = Started(jobId[r])]
    /\ UNCHANGED <<now, used, form, jobId, external, ret, clientVars, env, call>>

\* The detached task runs to its end on one of the responses.
Settle(r, responses) ==
    /\ \E settled \in responses :
        LET run == DetachedTask(files, jobId[r], settled, now)
        IN  /\ files' = run.fs
            /\ external' = [external EXCEPT ![r] = settled]
            /\ pc' = [pc EXCEPT ![r] = IF run.escaped THEN "unhandled" ELSE "done"]
    /\ UNCHANGED <<now, used, form, jobId, resp, ret, clientVars, env, call>>

\* The inference call settles.
TaskSettle(r) ==
    /\ pc[r] = "awaiting"
    /\ Settle(r, ExternalResponses)

---------------------------------------------------------------------------
(* The credential: config.ts and the construction of the client *)

\* A value of process.env.OPENAI_API_KEY: not set, or a text of quote
\* characters, white space (NL) and other characters (key).
Unset == [set |-> FALSE]
EnvValue(text) == [set |-> TRUE, text |-> text]

\* The values validateEnv refuses.
UnsetKeys ==
    {Unset, EnvValue(<<>>), EnvValue(<<Tok("NL")>>),
     EnvValue(<<Tok("QUOTE"), Tok("QUOTE")>>)}

IsQuote(c) == c.t = "QUOTE"
NotQuote(c) == ~IsQuote(c)

\* process.env.OPENAI_API_KEY?.replace(/["']/g, '').trim()
cleanApiKey(raw) ==
    IF ~raw.set THEN Unset ELSE EnvValue(trim(SelectSeq(raw.text, NotQuote)))

\* config.openai.apiKey: cleanApiKey || ''
apiKey(raw) ==
    IF ~cleanApiKey(raw).set \/ cleanApiKey(raw).text = <<>>
    THEN <<>>
    ELSE cleanApiKey(raw).text

validateEnv(raw) ==
    IF apiKey(raw) = <<>>
    THEN Throw(ErrorValue("OPENAI_API_KEY is required. Please check your .env file and ensure it contains your API key."))
    ELSE Return(Undefined)

\* new OpenAI({apiKey: process.env.OPENAI_API_KEY}) when the route module is
\* loaded.  The constructor belongs to the openai package: given a value that
\* validateEnv refuses it may throw or may build a client that holds it.
NewOpenAI(raw) ==
    IF validateEnv(raw).threw THEN {"constructed", "threw"} ELSE {"constructed"}

\* A request to /api/analyze whose route module fails to load: the handler
\* does not run and the framework answers 500.
PostModuleFails(r) ==
    /\ "threw" \in NewOpenAI(env)
    /\ pc[r] = "new"
    /\ \A earlier \in Requests : earlier < r => pc[earlier] # "new"
    /\ \E kind \in FormKinds : form' = [form EXCEPT ![r] = kind]
    /\ pc' = [pc EXCEPT ![r] = "responded"]
    /\ resp' = [resp EXCEPT ![r] = [status |-> 500]]
    /\ UNCHANGED <<files, now, used, jobId, external, ret, clientVars, env, call>>

\* The handler of a route module that loaded.  It does not look at the
\* credential.
PostModuleLoaded(r) ==
    /\ "constructed" \in NewOpenAI(env)
    /\ PostReceive(r)

---------------------------------------------------------------------------
(* GET /api/analyze/status *)

\* The response of the handler: 400 without an id, 404 when getJob finds
\* nothing, the record itself otherwise.
\* The handler without its test for a missing job.
StatusResponse_NoNotFound(fs, q, clock) ==
    IF q = NoId THEN [status |-> 400, error |-> "No jobId provided"]
    ELSE [status |-> 200, job |-> getJob(fs, q, clock).value]

StatusResponse(fs, q, clock) ==
    IF q = NoId THEN [status |-> 400, error |-> "No jobId provided"]
    ELSE IF getJob(fs, q, clock).value = Undefined
    THEN [status |-> 404, error |-> "Job not found"]
    ELSE [status |-> 200, job |-> getJob(fs, q, clock).value]

StatusGet(q) ==
    /\ files' = IF q = NoId THEN files ELSE getJob(files, q, now).fs
    /\ UNCHANGED <<now, used, pc, form, jobId, resp, external, ret, clientVars, env, call>>

---------------------------------------------------------------------------
(* The sweep timer and the clock *)

\* The setInterval callback of the JobStore constructor.  Node's timers run
\* on the monotonic clock, not on Date.now(), so a sweep may fall at any
\* reading of the wall clock.
Sweep ==
    /\ files' = cleanup(files, now)
    /\ UNCHANGED <<now, used, pc, form, jobId, resp, external, ret, clientVars, env, call>>

\* A millisecond passes.  The model follows the clock one millisecond past
\* each window boundary, which is where the expiry test changes its answer.
Tick ==
    /\ now % RETENTION_WINDOW = 0
    /\ now' = now + 1
    /\ UNCHANGED <<files, used, pc, form, jobId, resp, external, ret, clientVars, env, call>>

\* A whole retention window passes.  image.arrayBuffer() reads an upload that
\* is already in memory, so no window passes while a handler is suspended on it.
TickWindow ==
    /\ now \div RETENTION_WINDOW < MaxWindows
    /\ \A r \in Requests : pc[r] # "buffering"
    /\ now' = now + RETENTION_WINDOW
    /\ UNCHANGED <<files, used, pc, form, jobId, resp, external, ret, clientVars, env, call>>

---------------------------------------------------------------------------
(* The store object called directly *)

\* What a call finds under id: nothing, an unparsable file, a record older
\* than the retention window, or a record within it.
Found(fs, id, clock) ==
    IF ~existsSync(fs, id) THEN "absent"
    ELSE IF ~JSONparses(fs[id]) THEN "garbage"
    ELSE IF clock - fs[id].timestamp > RETENTION_WINDOW THEN "expired"
    ELSE "live"

\* The updates the program posts, and the terminal update of a caller that
\* read the clock earlier, at 0.
StoreUpdates(clock) ==
    {[status |-> "processing"],
     TerminalUpdate(
         analyzeImage([kind |-> "resolved", choices |-> <<[content |-> PlainText]>>]),
         clock),
     TerminalUpdate(
         analyzeImage([kind |-> "resolved", choices |-> <<[content |-> PlainText]>>]),
         0)}

\* Ids are opaque: a call creates an id created before or the next new one.
CallCreateJob(k) ==
    /\ k \in used \cup randomUUID(used)
    /\ files' = createJob(files, k, now)
    /\ used' = used \cup {k}
    /\ ret' = [op |-> "createJob", id |-> k, found |-> Found(files, k, now),
               value |-> [id |-> k]]
    /\ UNCHANGED <<now, pc, form, jobId, resp, external, clientVars, env, call>>

CallUpdateJob(k) ==
    /\ \E update \in StoreUpdates(now) :
        files' = updateJob(files, k, update, now)
    /\ ret' = [op |-> "updateJob", id |-> k, found |-> Found(files, k, now),
               value |-> Undefined]
    /\ UNCHANGED <<now, used, pc, form, jobId, resp, external, clientVars, env, call>>

CallGetJob(k) ==
    /\ files' = getJob(files, k, now).fs
    /\ ret' = [op |-> "getJob", id |-> k, found |-> Found(files, k, now),
               value |-> getJob(files, k, now).value]
    /\ UNCHANGED <<now, used, pc, form, jobId, resp, external, clientVars, env, call>>

\* What a sweep meets in the directory, the first of: an unparsable file, a
\* record older than the window, a record within it, nothing.
Met(fs, clock) ==
    LET kinds == {Found(fs, k, clock) : k \in DOMAIN fs}
    IN  IF "garbage" \in kinds THEN "garbage"
        ELSE IF "expired" \in kinds THEN "expired"
        ELSE IF "live" \in kinds THEN "live"
        ELSE "absent"

CallCleanup ==
    /\ files' = cleanup(files, now)
    /\ ret' = [op |-> "cleanup", id |-> NoId, found |-> Met(files, now),
               value |-> Undefined]
    /\ UNCHANGED <<now, used, pc, form, jobId, resp, external, clientVars, env, call>>

\* updateJob in its two file operations.  The call reads the record through
\* getJob and, when there is one, writes the merged record; the clock is read
\* again for the merge.  All of it is synchronous code.
Idle == [op |-> "none"]

\* No store call is on the stack.  A callback of the event loop runs to its
\* end before the next one starts, so a store operation begins only then.
RunsToCompletion_Interleaved == TRUE

RunsToCompletion == call.op = "none"

UpdateRead(k) ==
    /\ RunsToCompletion
    /\ call.op = "none"    \* one call is followed at a time
    /\ \E update \in StoreUpdates(now) :
        LET existingJob == getJob(files, k, now)
        IN  /\ files' = existingJob.fs
            /\ IF existingJob.value # Undefined
               THEN /\ call' = [op |-> "updateJob", id |-> k, update |-> update,
                                existingJob |-> existingJob.value]
                    /\ ret' = ret
               ELSE /\ call' = call
                    /\ ret' = [op |-> "updateJob", id |-> k,
                               found |-> Found(files, k, now), value |-> Undefined]
    /\ UNCHANGED <<now, used, pc, form, jobId, resp, external, clientVars, env>>

UpdateWrite ==
    /\ call.op = "updateJob"
    /\ files' = writeFileSync(files, call.id,
                              Merge(call.existingJob, call.update, now))
    /\ ret' = [op |-> "updateJob", id |-> call.id, found |-> "live",
               value |-> Undefined]
    /\ call' = Idle
    /\ UNCHANGED <<now, used, pc, form, jobId, resp, external, clientVars, env>>

\* The other store operations, started by other callbacks.
OtherCreateJob(k) ==
    /\ RunsToCompletion
    /\ CallCreateJob(k)

OtherGetJob(k) ==
    /\ RunsToCompletion
    /\ CallGetJob(k)

OtherCleanup ==
    /\ RunsToCompletion
    /\ CallCleanup

\* updateJob while the job directory fails.  readFileSync throws inside
\* getJob, whose catch block returns undefined: updateJob takes the job for
\* missing and writes nothing.
UpdateJobReadFails(k) ==
    /\ existsSync(files, k)
    /\ files' = files
    /\ ret' = [op |-> "updateJob", id |-> k, found |-> "unreadable",
               value |-> Undefined]
    /\ UNCHANGED <<now, used, pc, form, jobId, resp, external, clientVars, env, call>>

\* writeFileSync throws inside updateJob, whose catch block logs the error.
\* writeFileSync opens the file for writing, which empties it, and then
\* writes: a failure to open leaves the file as it was, a failure to write
\* leaves it without a whole document.
UpdateJobWriteFails(k) ==
    /\ getJob(files, k, now).value # Undefined
    /\ \/ files' = getJob(files, k, now).fs
       \/ files' = writeFileSync(getJob(files, k, now).fs, k, Garbage)
    /\ ret' = [op |-> "updateJob", id |-> k, found |-> "unwritable",
               value |-> Undefined]
    /\ UNCHANGED <<now, used, pc, form, jobId, resp, external, clientVars, env, call>>

\* The file of a job comes to hold text that JSON.parse rejects: the case the
\* catch blocks of getJob and of cleanup are written for.
Corrupt(k) ==
    /\ k \in used
    /\ files' = writeFileSync(files, k, Garbage)
    /\ ret' = [op |-> "corrupt", id |-> k, found |-> Found(files, k, now),
               value |-> Undefined]
    /\ UNCHANGED <<now, used, pc, form, jobId, resp, external, clientVars, env, call>>

\* A run of cleanup in which unlinkSync throws on the file k.  The files of
\* `before` come earlier in the listing of readdirSync and are handled as
\* usual.  For k, either another process removed it after the listing, and
\* then readFileSync throws, the catch block calls unlinkSync, and that throws
\* too; or the file is due for deletion and cannot be deleted.  The error
\* leaves the loop for the outer catch block, which logs it: the files after
\* k in the listing are not looked at.
cleanupInterrupted(fs, clock, k, before, vanished) ==
    LET oneHourAgo == clock - RETENTION_WINDOW
        dropped == {n \in before :
                       ~JSONparses(fs[n]) \/ fs[n].timestamp < oneHourAgo}
                   \cup (IF vanished THEN {k} ELSE {})
    IN  [n \in DOMAIN fs \ dropped |-> fs[n]]

CallCleanupInterrupted(k, before) ==
    /\ k \in DOMAIN files
    /\ before \subseteq DOMAIN files \ {k}
    /\ \/ files' = cleanupInterrupted(files, now, k, before, TRUE)
       \/ /\ Found(files, k, now) \in {"garbage", "expired"}
          /\ files' = cleanupInterrupted(files, now, k, before, FALSE)
    /\ ret' = [op |-> "cleanup", id |-> k, found |-> Met(files, now),
               value |-> Undefined]
    /\ UNCHANGED <<now, used, pc, form, jobId, resp, external, clientVars, env, call>>

\* The status handler called directly; value is its response.
CallStatus(q) ==
    /\ files' = IF q = NoId THEN files ELSE getJob(files, q, now).fs
    /\ ret' = [op |-> "GET", id |-> q,
               found |-> IF q = NoId THEN "absent" ELSE Found(files, q, now),
               value |-> [response |-> StatusResponse(files, q, now)]]
    /\ UNCHANGED <<now, used, pc, form, jobId, resp, external, clientVars, env, call>>

---------------------------------------------------------------------------
(* The page: handleUpload and its poll loop *)

\* What the timer callback makes of a status response.
PollOutcome(response) ==
    IF response.status = 404 THEN "notfound"
    ELSE IF response.status # 200 THEN "error"
    ELSE IF response.job.status = "completed" THEN "completed"
    ELSE IF response.job.status = "failed" THEN "failed"
    ELSE "continue"

\* handleUpload posts the selected file.  The model's clock stops one
\* millisecond past its last window, so the page submits while a whole window
\* is still ahead.
ClientSubmit(r) ==
    /\ view = "mounted"
    /\ now % RETENTION_WINDOW = 0
    /\ now \div RETENTION_WINDOW < MaxWindows
    /\ PostReceive(r)
    /\ form'[r] = "file"

\* handleUpload has the job id of an ok response and starts the timer.
PollStart(r) ==
    /\ poller[r] = "none"
    /\ resp[r].status = 200
    /\ poller' = [poller EXCEPT ![r] = "polling"]
    /\ UNCHANGED <<files, now, used, pc, form, jobId, resp, external, ret,
                   view, inflight, env, call>>

\* The timer fires and the callback fetches the status: the fetch rejects, or
\* the status handler answers.  One check is in flight at a time.
PollIssue(r) ==
    /\ poller[r] = "polling"
    /\ inflight[r] = "none"
    /\ \/ /\ inflight' = [inflight EXCEPT ![r] = "error"]
          /\ UNCHANGED files
       \/ /\ inflight' = [inflight EXCEPT ![r] =
                 PollOutcome(StatusResponse(files, resp[r].jobId, now))]
          /\ files' = getJob(files, resp[r].jobId, now).fs
    /\ UNCHANGED <<now, used, pc, form, jobId, resp, external, ret, view, poller, env, call>>

\* The page tells a completed job from a failed one and no more: one
\* response of each kind.
EitherWay ==
    {[kind |-> "rejected", error |-> ErrorValue("Request timed out.")],
     [kind |-> "resolved", choices |-> <<[content |-> PlainText]>>]}

ClientSettle(r) ==
    /\ pc[r] = "awaiting"
    /\ Settle(r, EitherWay)

\* The callback's pollInterval handling without the clearInterval of the
\* 404 branch.
AfterCheck_KeepsOnNotFound(outcome) ==
    IF outcome \in {"continue", "notfound"} THEN "polling" ELSE "stopped"

\* The callback's pollInterval handling without the clearInterval of the
\* failed branch.
AfterCheck_KeepsOnFailed(outcome) ==
    IF outcome \in {"continue", "failed"} THEN "polling" ELSE "stopped"

\* clearInterval(pollInterval) on 404, on completed, on failed and in the
\* catch block; the timer stays for pending and processing.
AfterCheck(outcome) ==
    IF outcome = "continue" THEN "polling" ELSE "stopped"

\* The callback handles the answer of its status check.
PollHandle(r) ==
    /\ inflight[r] # "none"
    /\ poller' = [poller EXCEPT ![r] = AfterCheck(inflight[r])]
    /\ inflight' = [inflight EXCEPT ![r] = "none"]
    /\ UNCHANGED <<files, now, used, pc, form, jobId, resp, external, ret, view, env, call>>

\* The page component unmounts.  Its effect cleanups revoke the preview URL;
\* the function handleUpload returns is held by no one, so no timer is
\* cleared.
Teardown ==
    /\ view = "mounted"
    /\ view' = "unmounted"
    /\ UNCHANGED <<files, now, used, pc, form, jobId, resp, external, ret,
                   poller, inflight, env, call>>

\* A millisecond passes while no handler is suspended on the upload.
ClientTick ==
    /\ \A r \in Requests : pc[r] # "buffering"
    /\ Tick

---------------------------------------------------------------------------
(* Specifications *)

Init ==
    /\ files = [n \in {} |-> Undefined]
    /\ now = 0
    /\ used = {}
    /\ pc = [r \in Requests |-> "new"]
    /\ form = [r \in Requests |-> "unsent"]
    /\ jobId = [r \in Requests |-> NoId]
    /\ resp = [r \in Requests |-> NoResponse]
    /\ external = [r \in Requests |-> Pending]
    /\ ret = [op |-> "none", id |-> NoId, found |-> "absent", value |-> Undefined]
    /\ view = "mounted"
    /\ poller = [r \in Requests |-> "none"]
    /\ inflight = [r \in Requests |-> "none"]
    /\ env = EnvValue(<<Tok("key")>>)
    /\ call = Idle

Next ==
    \/ \E r \in Requests : PostReceive(r)
    \/ \E r \in Requests : PostResume(r)
    \/ \E r \in Requests : TaskSettle(r)
    \/ \E q \in JobIds \cup {NoId} : StatusGet(q)
    \/ Sweep
    \/ Tick
    \/ TickWindow

Spec == Init /\ [][Next]_vars

FairSpec == Spec /\ \A r \in Requests : WF_vars(TaskSettle(r))

StoreNext ==
    \/ \E k \in JobIds : CallCreateJob(k)
    \/ \E k \in JobIds : CallUpdateJob(k)
    \/ \E k \in JobIds : CallGetJob(k)
    \/ CallCleanup
    \/ Tick
    \/ TickWindow

StoreSpec == Init /\ [][StoreNext]_vars

\* The store over a directory whose reads and writes can fail.
UnreliableNext ==
    \/ StoreNext
    \/ \E k \in JobIds : UpdateJobReadFails(k)
    \/ \E k \in JobIds : UpdateJobWriteFails(k)

UnreliableSpec == Init /\ [][UnreliableNext]_vars

\* The store with updateJob taken one file operation at a time, called from
\* several callbacks of one process.
SerialNext ==
    \/ \E k \in JobIds : OtherCreateJob(k)
    \/ \E k \in JobIds : UpdateRead(k)
    \/ UpdateWrite
    \/ \E k \in JobIds : OtherGetJob(k)
    \/ OtherCleanup
    \/ Tick
    \/ TickWindow

SerialSpec == Init /\ [][SerialNext]_vars

\* The mounted page with its submissions and poll loops, the handlers and
\* the sweep.
ClientNext ==
    \/ \E r \in Requests : ClientSubmit(r)
    \/ \E r \in Requests : PostResume(r)
    \/ \E r \in Requests : ClientSettle(r)
    \/ \E r \in Requests : PollStart(r)
    \/ \E r \in Requests : PollIssue(r)
    \/ \E r \in Requests : PollHandle(r)
    \/ Sweep
    \/ ClientTick
    \/ TickWindow

ClientSpec == Init /\ [][ClientNext]_vars

\* The same with the page unmounting at any moment.
PageNext ==
    \/ ClientNext
    \/ Teardown

PageSpec == Init /\ [][PageNext]_vars

\* The poll timer keeps firing, fetches settle, the upload is read and the
\* clock advances.
FairClientSpec ==
    /\ ClientSpec
    /\ \A r \in Requests :
          /\ WF_vars(PostResume(r))
          /\ WF_vars(PollIssue(r))
          /\ WF_vars(PollHandle(r))
    /\ WF_vars(ClientTick)
    /\ WF_vars(TickWindow)

\* Submissions of a file and the pipeline over every text of the service.
PipelineSubmit(r) ==
    /\ PostReceive(r)
    /\ form'[r] = "file"

PipelineSettle(r) ==
    /\ pc[r] = "awaiting"
    /\ Settle(r, PipelineResponses)

PipelineNext ==
    \/ \E r \in Requests : PipelineSubmit(r)
    \/ \E r \in Requests : PostResume(r)
    \/ \E r \in Requests : PipelineSettle(r)

PipelineSpec == Init /\ [][PipelineNext]_vars

\* The submission handler in a process started with a credential that
\* validateEnv refuses.
UnconfiguredInit ==
    \E raw \in UnsetKeys :
        /\ files = [n \in {} |-> Undefined]
        /\ now = 0
        /\ used = {}
        /\ pc = [r \in Requests |-> "new"]
        /\ form = [r \in Requests |-> "unsent"]
        /\ jobId = [r \in Requests |-> NoId]
        /\ resp = [r \in Requests |-> NoResponse]
        /\ external = [r \in Requests |-> Pending]
        /\ ret = [op |-> "none", id |-> NoId, found |-> "absent", value |-> Undefined]
        /\ view = "mounted"
        /\ poller = [r \in Requests |-> "none"]
        /\ inflight = [r \in Requests |-> "none"]
        /\ env = raw
        /\ call = Idle

UnconfiguredNext ==
    \/ \E r \in Requests : PostModuleFails(r)
    \/ \E r \in Requests : PostModuleLoaded(r)
    \/ \E r \in Requests : PostResume(r)
    \/ \E r \in Requests : TaskSettle(r)

UnconfiguredSpec == UnconfiguredInit /\ [][UnconfiguredNext]_vars

\* The handlers and the sweep while writes to the job directory can fail.
UnwritableNext ==
    \/ \E r \in Requests : PostReceive(r)
    \/ \E r \in Requests : PostReceiveUnwritable(r)
    \/ \E r \in Requests : PostResume(r)
    \/ \E r \in Requests : TaskSettle(r)
    \/ \E q \in JobIds \cup {NoId} : StatusGet(q)
    \/ Sweep

UnwritableSpec == Init /\ [][UnwritableNext]_vars

\* The store and the status handler over a directory that can hold
\* unreadable files.
DirectoryNext ==
    \/ StoreNext
    \/ \E k \in JobIds : Corrupt(k)
    \/ \E q \in JobIds \cup {NoId} : CallStatus(q)

DirectorySpec == Init /\ [][DirectoryNext]_vars

\* The store over a directory in which a deletion can fail.
InterruptedNext ==
    \/ DirectoryNext
    \/ \E k \in JobIds : \E before \in SUBSET JobIds : CallCleanupInterrupted(k, before)

InterruptedSpec == Init /\ [][InterruptedNext]_vars

---------------------------------------------------------------------------
(* Properties *)

Parsed(fs, k) == existsSync(fs, k) /\ JSONparses(fs[k])

IsTerminal(fs, k) == Parsed(fs, k) /\ fs[k].status \in Terminal

\* The record is the terminal record the pipeline's outcome calls for.
TerminalFor(job, settled) ==
    LET outcome == analyzeImage(settled)
    IN  IF outcome.threw
        THEN /\ job.status = "failed"
             /\ "error" \in DOMAIN job
             /\ job.error = (IF outcome.error.isError THEN outcome.error.message
                             ELSE "Unknown error")
             /\ "result" \notin DOMAIN job
        ELSE /\ job.status = "completed"
             /\ "result" \in DOMAIN job
             /\ job.result = outcome.value
             /\ "error" \notin DOMAIN job

\* The step in which the detached task of submission r ends.
TaskEnds(r) == pc[r] = "awaiting" /\ pc'[r] # "awaiting"

\* C1: under every interleaving of submissions, task completions, status
\* requests and sweeps, a record that is stored before and after a step has
\* not moved to an earlier status (pending < processing < completed, failed),
\* and an id whose record was removed never gets a record again.
C1_StatusOnlyMovesForward ==
    [][\A k \in JobIds :
          /\ (Parsed(files, k) /\ Parsed(files', k))
                => Rank(files[k].status) <= Rank(files'[k].status)
          /\ (k \in used /\ ~existsSync(files, k)) => ~existsSync(files', k)]_vars

C1_Witness ==
    \E r1, r2 \in Requests :
        /\ pc[r1] = "done" /\ IsTerminal(files, jobId[r1])
        /\ pc[r2] = "awaiting" /\ Parsed(files, jobId[r2])
        /\ files[jobId[r2]].status = "processing"

\* C2: the step that produces the {jobId} response leaves the job's record
\* stored with status processing and the detached task suspended on the
\* inference call; a record becomes terminal only in a later step, the one in
\* which the detached task of an already answered submission ends.
C2_ResponseDoesNotWaitForPipeline ==
    [][/\ \A r \in Requests :
             (resp[r] = NoResponse /\ resp'[r].status = 200)
                => /\ pc'[r] = "awaiting"
                   /\ external'[r] = Pending
                   /\ Parsed(files', resp'[r].jobId)
                   /\ files'[resp'[r].jobId].status = "processing"
       /\ \A k \in JobIds :
             (~IsTerminal(files, k) /\ IsTerminal(files', k))
                => \E r \in Requests :
                      /\ jobId[r] = k
                      /\ resp[r] = Started(k)
                      /\ TaskEnds(r)]_vars

C2_Witness ==
    \E r \in Requests :
        /\ resp[r].status = 200
        /\ pc[r] = "awaiting"
        /\ external[r] = Pending
        /\ Parsed(files, jobId[r]) /\ files[jobId[r]].status = "processing"

\* C3 as stated, in the form a finite run refutes: the detached task's last
\* step is the only one that can store the terminal record, so every job whose
\* id was returned has the terminal record for its outcome once its task ended.
C3_Original ==
    [][\A r \in Requests :
          TaskEnds(r)
             => /\ Parsed(files', jobId[r])
                /\ TerminalFor(files'[jobId[r]], external'[r])]_vars

\* C3 amended: every job whose id was returned has its detached task run to
\* its end once the inference call settles, polled or not; the task's last
\* step stores the terminal record for its outcome if the job's record is
\* still stored and within the retention window at that moment, and otherwise
\* leaves no record for the id.
C3_TerminalRecordWhileRetained ==
    /\ \A r \in Requests : (resp[r].status = 200) ~> (pc[r] = "done")
    /\ [][\A r \in Requests :
             TaskEnds(r)
                => IF Found(files, jobId[r], now) = "live"
                   THEN /\ Parsed(files', jobId[r])
                        /\ TerminalFor(files'[jobId[r]], external'[r])
                   ELSE ~existsSync(files', jobId[r])]_vars

C3_Witness ==
    \E r1, r2 \in Requests :
        /\ pc[r1] = "done" /\ Parsed(files, jobId[r1])
        /\ files[jobId[r1]].status = "completed"
        /\ pc[r2] = "done" /\ Parsed(files, jobId[r2])
        /\ files[jobId[r2]].status = "failed"

\* C4 as stated: when the inference call fails after the response, the task's
\* last step leaves the record failed with a non-empty message and no result,
\* and no exception leaves the task.
C4_Original ==
    [][\A r \in Requests :
          (TaskEnds(r) /\ analyzeImage(external'[r]).threw)
             => /\ pc'[r] = "done"
                /\ Parsed(files', jobId[r])
                /\ files'[jobId[r]].status = "failed"
                /\ "error" \in DOMAIN files'[jobId[r]]
                /\ files'[jobId[r]].error # ""
                /\ "result" \notin DOMAIN files'[jobId[r]]]_vars

\* C4 amended: when the inference call fails after the response, no exception
\* leaves the task; if the job's record is still stored and within the
\* retention window, it becomes failed with a non-empty message and no
\* result; otherwise no record is stored for the id.
C4_FailureCapturedWhileRetained ==
    [][\A r \in Requests :
          (TaskEnds(r) /\ analyzeImage(external'[r]).threw)
             => /\ pc'[r] = "done"
                /\ IF Found(files, jobId[r], now) = "live"
                   THEN /\ Parsed(files', jobId[r])
                        /\ files'[jobId[r]].status = "failed"
                        /\ "error" \in DOMAIN files'[jobId[r]]
                        /\ files'[jobId[r]].error # ""
                        /\ "result" \notin DOMAIN files'[jobId[r]]
                   ELSE ~existsSync(files', jobId[r])]_vars

C4_Witness ==
    \E r \in Requests :
        /\ pc[r] = "done"
        /\ external[r].kind = "rejected"
        /\ Parsed(files, jobId[r])
        /\ files[jobId[r]].status = "failed"
        /\ files[jobId[r]].error = "Request timed out."

\* C5: a record with status completed or failed is never changed by a later
\* step; it can only be removed, and only once it is older than the
\* retention window.
C5_TerminalRecordImmutable ==
    [][\A k \in JobIds :
          IsTerminal(files, k)
             => \/ existsSync(files', k) /\ files'[k] = files[k]
                \/ /\ ~existsSync(files', k)
                   /\ now - files[k].timestamp > RETENTION_WINDOW]_vars

C5_Witness ==
    \E r \in Requests :
        /\ pc[r] = "done"
        /\ IsTerminal(files, jobId[r])
        /\ now - files[jobId[r]].timestamp > RETENTION_WINDOW

\* C6: every stored record has a result only with status completed, an error
\* only with status failed, and never both.
C6_ResultErrorConsistent ==
    \A k \in DOMAIN files :
        JSONparses(files[k])
           => /\ "result" \in DOMAIN files[k] => files[k].status = "completed"
              /\ "error" \in DOMAIN files[k] => files[k].status = "failed"
              /\ ~("result" \in DOMAIN files[k] /\ "error" \in DOMAIN files[k])

C6_Witness ==
    \E k1, k2 \in DOMAIN files :
        /\ files[k1].status = "completed" /\ "result" \in DOMAIN files[k1]
        /\ files[k2].status = "failed" /\ "error" \in DOMAIN files[k2]

\* C7: a submission without an image field is answered 400 with no job id, in
\* a step that changes neither the store nor the ids handed out, and no
\* detached task ever runs for it.
C7_NoImageCreatesNothing ==
    [][\A r \in Requests :
          /\ (pc[r] = "new" /\ pc'[r] # "new" /\ form'[r] = "none")
                => /\ resp'[r].status = 400
                   /\ "jobId" \notin DOMAIN resp'[r]
                   /\ files' = files
                   /\ used' = used
                   /\ jobId'[r] = NoId
          /\ form'[r] = "none"
                => pc'[r] = "responded" /\ external'[r] = Pending]_vars

C7_Witness ==
    \E r \in Requests :
        /\ form[r] = "none"
        /\ resp[r] = BadRequest
        /\ DOMAIN files # {}

\* C8: getJob(id) on a stored record returns the record, leaving the store
\* as it is, when now - timestamp <= 1 hour; it returns absent and removes
\* the entry in the same call when now - timestamp > 1 hour.
C8_GetJobExpiryBoundary ==
    [][\A k \in JobIds :
          (ret'.op = "getJob" /\ ret'.id = k /\ CallGetJob(k) /\ Parsed(files, k))
             => IF now - files[k].timestamp <= RETENTION_WINDOW
                THEN ret'.value = files[k] /\ files' = files
                ELSE ret'.value = Undefined /\ ~existsSync(files', k)]_vars

C8_Witness ==
    /\ ret.op = "getJob"
    /\ ret.value # Undefined
    /\ now - ret.value.timestamp = RETENTION_WINDOW
    /\ \E k \in used : ~existsSync(files, k)

\* C9: updateJob on a record older than the retention window that is still
\* stored does not revive it: the record is not rewritten, and getJob(id)
\* returns absent afterwards.
C9_UpdateDoesNotReviveExpired ==
    [][\A k \in JobIds :
          (/\ ret'.op = "updateJob" /\ ret'.id = k
           /\ Found(files, k, now) = "expired" /\ CallUpdateJob(k))
             => /\ ~existsSync(files', k) \/ files'[k] = files[k]
                /\ getJob(files', k, now').value = Undefined]_vars

C9_Witness ==
    /\ ret.op = "updateJob"
    /\ ret.found = "expired"
    /\ ~existsSync(files, ret.id)

\* C10: updateJob(id, fields) on an id with no record changes nothing: no
\* record is created for the id and getJob(id) still returns absent.
C10_UpdateOfMissingIsNoOp ==
    [][\A k \in JobIds :
          (/\ ret'.op = "updateJob" /\ ret'.id = k
           /\ ~existsSync(files, k) /\ CallUpdateJob(k))
             => /\ files' = files
                /\ getJob(files', k, now').value = Undefined]_vars

C10_Witness ==
    /\ ret.op = "updateJob"
    /\ ret.found = "absent"
    /\ DOMAIN files # {}


\* C11: one run of cleanup deletes every file whose record is older than the
\* retention window and every file that cannot be parsed, and leaves every
\* parseable record within the window in place, unchanged.
C11_CleanupDeletesExactlyStale ==
    [][(ret'.op = "cleanup" /\ CallCleanup) =>
          \A k \in DOMAIN files :
              IF ~JSONparses(files[k])
              THEN ~existsSync(files', k)
              ELSE IF now - files[k].timestamp > RETENTION_WINDOW
              THEN ~existsSync(files', k)
              ELSE existsSync(files', k) /\ files'[k] = files[k]]_vars

\* A sweep that met an unparsable file has left a record of exactly one
\* hour of age in place.
C11_Witness ==
    /\ ret.op = "cleanup"
    /\ ret.found = "garbage"
    /\ \E k \in DOMAIN files :
          JSONparses(files[k]) /\ now - files[k].timestamp = RETENTION_WINDOW

\* C12: getJob and cleanup draw the same line.  At every instant getJob
\* returns the record of an id exactly when a sweep at that instant would keep
\* its file, so an expired record is returned neither before the sweep that
\* removes it nor after.
C12_GetJobAgreesWithCleanup ==
    /\ [][\A k \in JobIds :
             (ret'.op = "getJob" /\ ret'.id = k /\ CallGetJob(k)) =>
                 (ret'.value # Undefined <=> existsSync(cleanup(files, now), k))]_vars
    /\ [][(ret'.op = "cleanup" /\ CallCleanup) =>
             \A k \in JobIds :
                 /\ existsSync(files', k) <=> getJob(files, k, now).value # Undefined
                 /\ ~existsSync(files', k) => getJob(files', k, now).value = Undefined]_vars

\* getJob has refused a record one millisecond past the window whose file no
\* sweep had removed yet.
C12_Witness ==
    /\ ret.op = "getJob"
    /\ ret.found = "expired"
    /\ ret.value = Undefined
    /\ now % RETENTION_WINDOW = 1

\* C13: the status handler answers 400 when no id is given, 404 when getJob
\* finds no job under the id, and otherwise 200 with the stored record as it
\* is: status, result, error and timestamp.  The three answers differ.
C13_StatusOutcomes ==
    [][\A q \in JobIds \cup {NoId} :
          (ret'.op = "GET" /\ ret'.id = q /\ CallStatus(q)) =>
              IF q = NoId
              THEN ret'.value.response.status = 400 /\ files' = files
              ELSE IF \/ ~existsSync(files, q)
                      \/ ~JSONparses(files[q])
                      \/ now - files[q].timestamp > RETENTION_WINDOW
              THEN ret'.value.response.status = 404 /\ "job" \notin DOMAIN ret'.value.response
              ELSE /\ ret'.value.response.status = 200
                   /\ ret'.value.response.job = files[q]
                   /\ files' = files]_vars

\* The handler has answered 200 with a completed record.
C13_Witness ==
    /\ ret.op = "GET"
    /\ ret.value.response.status = 200
    /\ ret.value.response.job.status = "completed"
    /\ "result" \in DOMAIN ret.value.response.job


\* C14: no poll loop runs forever.  With the poll timer firing, fetches
\* settling and the clock advancing, every poll loop started after a
\* successful submission stops: a job that never gets a terminal record
\* expires, and the status handler then answers not found.
C14_PollLoopStops ==
    \A r \in Requests : (poller[r] = "polling") ~> (poller[r] = "stopped")

\* A poll loop has stopped on not found for a job whose task never settled.
C14_Witness ==
    \E r \in Requests :
        /\ poller[r] = "stopped"
        /\ pc[r] = "awaiting"
        /\ ~existsSync(files, jobId[r])

\* What a status check of the job of submission r reports at this moment.
Reports(r) ==
    LET job == getJob(files, resp[r].jobId, now).value
    IN  IF job = Undefined THEN "notfound"
        ELSE IF job.status \in {"pending", "processing"} THEN "continue"
        ELSE job.status

\* C15: the poller keeps checking while the status it reads is pending or
\* processing, and cancels its timer as soon as one check reports completed,
\* failed or not found: from then on it issues no status request.
C15_PollerStopsOnTerminalOrNotFound ==
    /\ [][\A r \in Requests :
             PollIssue(r) => inflight'[r] \in {Reports(r), "error"}]_vars
    /\ [][\A r \in Requests :
             PollHandle(r) =>
                 IF inflight[r] = "continue"
                 THEN poller'[r] = "polling" /\ inflight'[r] = "none"
                 ELSE poller'[r] = "stopped"]_vars
    /\ [][\A r \in Requests :
             poller[r] = "stopped" =>
                 poller'[r] = "stopped" /\ inflight'[r] = "none"]_vars

\* One poll loop has stopped on a failed job while another goes on with a
\* job still in processing.
C15_Witness ==
    \E r, q \in Requests :
        /\ poller[r] = "stopped"
        /\ IsTerminal(files, jobId[r])
        /\ files[jobId[r]].status = "failed"
        /\ poller[q] = "polling"
        /\ Parsed(files, jobId[q])
        /\ files[jobId[q]].status = "processing"

\* C16: when the page is torn down while a poll loop is active, the loop's
\* repeating status check is cancelled, so that no status request follows the
\* teardown.
C16_TeardownCancelsPolling ==
    [][Teardown =>
          \A r \in Requests : poller[r] = "polling" => poller'[r] = "stopped"]_vars

\* The inference call resolved with a text that, cleaned, is a JSON document.
HasDoc(settled) ==
    /\ settled.kind = "resolved"
    /\ settled.choices # <<>>
    /\ settled.choices[1].content # <<>>
    /\ ~JSONparse(cleanJsonResponse(settled.choices[1].content)).threw

DocOf(settled) == JSONparse(cleanJsonResponse(settled.choices[1].content)).value

HasItems(doc) == "ingredients" \in DOMAIN doc /\ IsArray(doc.ingredients)

Classifications == {"high_risk", "moderate_risk", "healthy"}

Completed(k) == Parsed(files, k) /\ files[k].status = "completed"

Failed(k) == Parsed(files, k) /\ files[k].status = "failed"

\* C17: no job is completed with an ingredient whose classification is outside
\* high_risk, moderate_risk, healthy; a response carrying such a value makes
\* analyzeImage fail and the job failed.
C17_ClassificationClosed ==
    /\ \A k \in DOMAIN files :
          Completed(k) =>
              \A i \in DOMAIN files[k].result.ingredients :
                  /\ "classification" \in DOMAIN files[k].result.ingredients[i]
                  /\ files[k].result.ingredients[i].classification \in Classifications
    /\ \A r \in Requests :
          (/\ pc[r] = "done"
           /\ HasDoc(external[r])
           /\ HasItems(DocOf(external[r]))
           /\ \E i \in DOMAIN DocOf(external[r]).ingredients.array :
                 DocOf(external[r]).ingredients.array[i].classification
                     \notin Classifications)
              => Failed(jobId[r])

\* ingredients is no array, or an element has no name, an empty name or no
\* explanation.
IllShaped(doc) ==
    \/ ~HasItems(doc)
    \/ \E i \in DOMAIN doc.ingredients.array :
          LET ingredient == doc.ingredients.array[i]
          IN  \/ "name" \notin DOMAIN ingredient
              \/ ingredient.name = ""
              \/ "explanation" \notin DOMAIN ingredient

\* C18: a response whose ingredients is not an array, or one of whose elements
\* lacks a non-empty name or an explanation, makes analyzeImage fail and the
\* job failed; it never yields a completed job.
C18_ShapeValidated ==
    \A r \in Requests :
        (pc[r] = "done" /\ HasDoc(external[r]) /\ IllShaped(DocOf(external[r])))
            => Failed(jobId[r]) /\ ~Completed(jobId[r])

LookupFails(ingredient) == searchPubMedPapers(NameOf(ingredient)).threw

\* C19: a reference lookup that fails for one ingredient does not fail the
\* job: the job completes, that ingredient has an empty papers list and every
\* other ingredient has its papers.
C19_LookupFailureDegrades ==
    \A r \in Requests :
        (/\ pc[r] = "done"
         /\ HasDoc(external[r])
         /\ HasItems(DocOf(external[r]))
         /\ \E i \in DOMAIN DocOf(external[r]).ingredients.array :
               LookupFails(DocOf(external[r]).ingredients.array[i]))
            => /\ Completed(jobId[r])
               /\ LET items == DocOf(external[r]).ingredients.array
                      stored == files[jobId[r]].result.ingredients
                  IN  /\ DOMAIN stored = DOMAIN items
                      /\ \A i \in DOMAIN items :
                            stored[i].papers =
                                IF LookupFails(items[i]) THEN <<>>
                                ELSE searchPubMedPapers(NameOf(items[i])).value

\* The text is one JSON document between an opening fence, with or without
\* the json tag, and a closing fence.
Wrapped(text) ==
    /\ text # <<>>
    /\ text[1].t \in {"FENCE_JSON", "FENCE"}
    /\ \E i \in DOMAIN text :
          /\ text[i].t = "json"
          /\ \A j \in DOMAIN text \ {i} : text[j].t \in {"FENCE_JSON", "FENCE", "NL"}
          /\ \E j \in DOMAIN text : j > i /\ text[j].t = "FENCE"

Unfenced(text) == SelectSeq(text, LAMBDA tok : tok.t = "json")

HasText(settled) ==
    /\ settled.kind = "resolved"
    /\ settled.choices # <<>>
    /\ settled.choices[1].content # <<>>

\* C21: when the direct parse of the fence-stripped text fails but the text
\* holds a JSON object with other text around it, the pipeline extracts the
\* object, parses it and the job completes with its ingredients; a parse
\* failure is reported only when the direct parse and the extraction both
\* fail.
C21_ExtractionFallback ==
    \A r \in Requests :
        (pc[r] = "done" /\ HasText(external[r]))
            => LET text == external[r].choices[1].content
                   extracted == extractJsonFromText(text)
               IN  IF extracted = Null
                   THEN Failed(jobId[r])
                   ELSE IF extracted = GoodDoc
                   THEN /\ Completed(jobId[r])
                        /\ Len(files[jobId[r]].result.ingredients)
                              = Len(GoodDoc.ingredients.array)
                   ELSE TRUE

\* C22: an id that was never passed to createJob has no record, and getJob
\* of it returns undefined, whatever was done to other ids.
C22_NeverCreatedIsAbsent ==
    /\ [](\A k \in JobIds \ used :
             ~existsSync(files, k) /\ getJob(files, k, now).value = Undefined)
    /\ [][\A k \in JobIds \ used :
             (ret'.op = "getJob" /\ ret'.id = k /\ CallGetJob(k))
                 => ret'.value = Undefined /\ files' = files]_vars

\* getJob of an id never created has returned undefined while the record of
\* a created id is stored.
C22_Witness ==
    /\ ret.op = "getJob"
    /\ ret.id \notin used
    /\ ret.value = Undefined
    /\ \E k \in used : Parsed(files, k)

\* C23: a write is visible to the very next read.  Right after createJob(k)
\* getJob(k) returns status pending, and right after updateJob(k, {status:
\* 'processing'}) on a record it finds getJob(k) returns status processing.
C23_ReadYourWrites ==
    /\ [][\A k \in JobIds :
             (ret'.op = "createJob" /\ ret'.id = k /\ CallCreateJob(k))
                 => getJob(files', k, now').value.status = "pending"]_vars
    /\ [][\A k \in JobIds :
             (/\ ret'.op = "updateJob" /\ ret'.id = k
              /\ getJob(files, k, now).value # Undefined
              /\ files' = updateJob(files, k, [status |-> "processing"], now)
              /\ CallUpdateJob(k))
                 => getJob(files', k, now').value.status = "processing"]_vars
    /\ [][\A k \in JobIds :
             (/\ ret.op \in {"createJob", "updateJob"} /\ ret.id = k
              /\ Parsed(files, k) /\ files[k].timestamp = now
              /\ ret'.op = "getJob" /\ ret'.id = k /\ CallGetJob(k))
                 => ret'.value = files[k]]_vars

\* getJob has returned the processing record that the call before it wrote.
C23_Witness ==
    /\ ret.op = "getJob"
    /\ ret.found = "live"
    /\ ret.value.status = "processing"
    /\ ret.value.timestamp = now
    /\ "result" \notin DOMAIN ret.value

\* C24: when createJob cannot write the record the failure propagates and
\* the submission is aborted: the answer is a 5xx error without a job id, the
\* pipeline is never launched, and no record is stored for the id.
C24_CreateFailureAborts ==
    /\ [][\A r \in Requests :
             PostReceiveUnwritable(r)
                 => /\ resp'[r].status >= 500
                    /\ "jobId" \notin DOMAIN resp'[r]
                    /\ pc'[r] = "responded"
                    /\ getJob(files', jobId'[r], now).value = Undefined]_vars
    /\ [](\A r \in Requests :
             (form[r] = "file" /\ resp[r].status >= 500)
                 => /\ pc[r] = "responded"
                    /\ external[r] = Pending
                    /\ ~Parsed(files, jobId[r]))

\* A submission with a file has been answered 500 and another one, made
\* after it, has its job completed.
C24_Witness ==
    \E r, q \in Requests :
        /\ form[r] = "file"
        /\ resp[r] = StartFailed
        /\ jobId[r] # NoId
        /\ r < q
        /\ Completed(jobId[q])

\* C25: getJob on a record whose file cannot be read or does not hold valid
\* JSON returns undefined and does not throw, so the status handler answers
\* 404 for it, not a server error.  The file is left where it is.
C25_UnreadableIsAbsent ==
    [][\A k \in JobIds :
          (existsSync(files, k) /\ ~JSONparses(files[k])) =>
              /\ (ret'.op = "getJob" /\ CallGetJob(k))
                     => ret'.value = Undefined /\ files' = files
              /\ (ret'.op = "GET" /\ CallStatus(k))
                     => /\ ret'.value.response.status = 404
                        /\ ret'.value.response.error = "Job not found"
                        /\ files' = files]_vars

\* The status handler has answered 404 for an id whose file is still in the
\* directory, unparsable.
C25_Witness ==
    /\ ret.op = "GET"
    /\ ret.found = "garbage"
    /\ ret.value.response.status = 404
    /\ existsSync(files, ret.id)
    /\ ~JSONparses(files[ret.id])

\* C26: cleanup is idempotent at one reading of the clock: a second run right
\* after the first finds nothing to do.  A run changes the directory only by
\* deleting files: it adds none and rewrites none.
C26_CleanupIdempotent ==
    [][(ret'.op = "cleanup" /\ CallCleanup) =>
          /\ cleanup(files', now') = files'
          /\ DOMAIN files' \subseteq DOMAIN files
          /\ \A k \in DOMAIN files' : files'[k] = files[k]
          /\ (ret.op = "cleanup" /\ cleanup(files, now) = files) => files' = files]_vars

\* A sweep that met an expired record has deleted it and kept a record in
\* processing.
C26_Witness ==
    /\ ret.op = "cleanup"
    /\ ret.found = "expired"
    /\ \E k \in used : ~existsSync(files, k)
    /\ \E k \in DOMAIN files : JSONparses(files[k]) /\ files[k].status = "processing"

\* C27: a run of cleanup does not throw, and a file it fails to read or to
\* delete does not keep it from removing the other files due for deletion:
\* after the run every other unparsable or expired file is gone.
C27_SweepToleratesFailures ==
    [][\A k \in JobIds : \A before \in SUBSET JobIds :
          (ret'.op = "cleanup" /\ ret'.id = k /\ CallCleanupInterrupted(k, before)) =>
              /\ ret'.value = Undefined
              /\ \A n \in DOMAIN files \ {k} :
                    Found(files, n, now) \in {"garbage", "expired"}
                        => ~existsSync(files', n)]_vars

\* C28: with the credential absent or empty the configuration is refused
\* at once: validateEnv throws, and a submission made in that configuration
\* creates no job and makes no call to the inference service.
C28_UnsetCredentialFailsFast ==
    validateEnv(env).threw =>
        /\ validateEnv(env).error.message # ""
        /\ DOMAIN files = {}
        /\ \A r \in Requests : jobId[r] = NoId /\ external[r] = Pending

\* C29: updateJob merges: the fields of the update take their new values and
\* the other fields of the record keep theirs.  The timestamp is always set
\* to the clock of the store, whatever timestamp the update carries, so the
\* timestamp of a job never decreases while the clock does not go back.
C29_UpdateMergesAndStamps ==
    /\ [][ret'.op = "updateJob" =>
          \A k \in {ret'.id} : \A update \in StoreUpdates(now) :
             (/\ Found(files, k, now) = "live"
              /\ files' = updateJob(files, k, update, now))
                 => /\ DOMAIN files'[k] = DOMAIN files[k] \cup DOMAIN update
                    /\ files'[k].timestamp = now
                    /\ \A f \in DOMAIN update \ {"timestamp"} : files'[k][f] = update[f]
                    /\ \A f \in DOMAIN files[k] \ (DOMAIN update \cup {"timestamp"}) :
                          files'[k][f] = files[k][f]]_vars
    /\ [][\A k \in JobIds :
             (Parsed(files, k) /\ Parsed(files', k))
                 => files'[k].timestamp >= files[k].timestamp]_vars

\* A record created at 0 has been completed an hour later: its timestamp is
\* the later clock, not the 0 an update may carry.
C29_Witness ==
    /\ ret.op = "updateJob"
    /\ ret.found = "live"
    /\ now = RETENTION_WINDOW
    /\ files[ret.id].status = "completed"
    /\ files[ret.id].timestamp = now

\* C30: getJob on a record within the retention window changes nothing in
\* the store.  It does not refresh the timestamp, so a record that is read,
\* directly or through the status handler, expires when it would have expired
\* unread: polling does not extend retention.
C30_ReadDoesNotRefresh ==
    [][\A k \in JobIds :
          (/\ \/ ret'.op = "getJob" /\ CallGetJob(k)
              \/ ret'.op = "GET" /\ CallStatus(k)
           /\ Found(files, k, now) = "live")
              => /\ files' = files
                 /\ files'[k].timestamp = files[k].timestamp
                 /\ \A later \in {now, now + 1, now + RETENTION_WINDOW} :
                       getJob(files', k, later).value = getJob(files, k, later).value]_vars

\* The status handler has returned a record in processing that is exactly
\* one hour old and still is.
C30_Witness ==
    /\ ret.op = "GET"
    /\ ret.found = "live"
    /\ ret.value.response.status = 200
    /\ ret.value.response.job.status = "processing"
    /\ existsSync(files, ret.id)
    /\ files[ret.id] = ret.value.response.job
    /\ now - files[ret.id].timestamp = RETENTION_WINDOW

\* C31: within one process the read, merge and write of updateJob run with no
\* other store operation between them.  The record an update writes is the
\* record as the operation before it left it, with the fields of the update
\* on top: two updates of one id give the record of the two applied one after
\* the other, the later one's fields winning, and no update is lost.
C31_UpdatesSerialize ==
    /\ [][call.op = "updateJob" =>
             \/ UNCHANGED <<files, call>>
             \/ /\ call'.op = "none"
                /\ existsSync(files, call.id)
                /\ files[call.id] = call.existingJob
                /\ \A f \in DOMAIN call.update \ {"timestamp"} :
                      files'[call.id][f] = call.update[f]
                /\ \A f \in DOMAIN files[call.id] \ (DOMAIN call.update \cup {"timestamp"}) :
                      files'[call.id][f] = files[call.id][f]
                /\ \A n \in DOMAIN files \ {call.id} :
                      existsSync(files', n) /\ files'[n] = files[n]]_vars
    /\ [][\A k \in JobIds :
             (/\ ret.op = "updateJob" /\ ret.id = k /\ ret.found = "live"
              /\ call.op = "updateJob" /\ call.id = k /\ call'.op = "none"
              /\ Found(files, k, now) = "live")
                 => files' = updateJob(files, k, call.update, now)]_vars

\* Two updates of one id have run one after the other: the record has the
\* status of the later one, processing, and the result of the earlier.
C31_Witness ==
    /\ call.op = "none"
    /\ ret.op = "updateJob"
    /\ ret.found = "live"
    /\ files[ret.id].status = "processing"
    /\ "result" \in DOMAIN files[ret.id]
    /\ files[ret.id].timestamp = RETENTION_WINDOW

\* C32: whenever POST /api/analyze answers with an error, 4xx or 5xx, no
\* record created by that request is in the store with status pending or
\* processing.
C32_ErrorLeavesNoOpenJob ==
    \A r \in Requests :
        (resp[r].status >= 400 /\ jobId[r] # NoId)
            => ~(/\ Parsed(files, jobId[r])
                 /\ files[jobId[r]].status \in {"pending", "processing"})

\* C33: updateJob never throws to its caller.  When the read or the write of
\* the job file fails during an update, the call returns normally and the
\* stored record keeps the contents it had.
C33_UpdateFailureKeepsRecord ==
    [][\A k \in JobIds :
          (/\ ret'.op = "updateJob" /\ ret'.id = k
           /\ ret'.found \in {"unreadable", "unwritable"}
           /\ UpdateJobReadFails(k) \/ UpdateJobWriteFails(k))
              => /\ ret'.value = Undefined
                 /\ existsSync(files', k)
                 /\ files'[k] = files[k]]_vars

\* C34: createJob on an id that already has a record replaces the record
\* with a fresh one, status pending and the timestamp of the call: the status,
\* result and error stored before are gone.  A record past pending is thereby
\* moved back, so the forward order of statuses holds only while ids are not
\* reused.
C34_CreateReplaces ==
    [][\A k \in JobIds :
          (ret'.op = "createJob" /\ ret'.id = k /\ existsSync(files, k) /\ CallCreateJob(k))
              => /\ existsSync(files', k)
                 /\ DOMAIN files'[k] = {"status", "timestamp"}
                 /\ files'[k].status = "pending"
                 /\ files'[k].timestamp = now
                 /\ (Parsed(files, k) /\ Rank(files[k].status) > Rank("pending"))
                        => Rank(files'[k].status) < Rank(files[k].status)]_vars

\* createJob has been called, an hour after the first record was written, on
\* an id whose record was within the window, and has left a pending record
\* of that hour while the other record is completed.
C34_Witness ==
    /\ ret.op = "createJob"
    /\ ret.found = "live"
    /\ now = RETENTION_WINDOW
    /\ files[ret.id] = [status |-> "pending", timestamp |-> now]
    /\ \E k \in DOMAIN files : files[k].status = "completed"

\* C35: a store operation on one id changes no other job's record.
\* createJob(k), updateJob(k, fields) and getJob(k), the deletion of an expired
\* record by getJob included, leave the file of every other id as it is:
\* there if it was there, with the same contents, and absent if it was absent.
C35_OtherRecordsUntouched ==
    [][ret'.op \in {"createJob", "updateJob", "getJob"} =>
          \A k \in {ret'.id} :
              (\/ ret'.op = "createJob" /\ CallCreateJob(k)
               \/ ret'.op = "updateJob" /\ CallUpdateJob(k)
               \/ ret'.op = "getJob" /\ CallGetJob(k)) =>
                  \A n \in JobIds \ {k} :
                      /\ existsSync(files', n) <=> existsSync(files, n)
                      /\ existsSync(files, n) => files'[n] = files[n]]_vars

\* getJob has deleted the expired record of one id while the record of
\* another id, expired as well, is still stored.
C35_Witness ==
    /\ ret.op = "getJob"
    /\ ret.found = "expired"
    /\ ~existsSync(files, ret.id)
    /\ \E n \in DOMAIN files : n # ret.id /\ Found(files, n, now) = "expired"

====
